---- MODULE Spec2Model ----
(***************************************************************************)
(* Time-expanded transit graph construction (hcmc-transit-accessibility).  *)
(*                                                                         *)
(* Two programs are modelled:                                              *)
(*   - the link generator (link_generator.py): four builders that join    *)
(*     the rows of a node table into bus, wait, transfer and walk links    *)
(*     and append them to one output file under one running link id;       *)
(*   - the node generator (node_generator.py): the expansion of routes,    *)
(*     variants and trips into DEPARTURE / ARRIVAL events.                 *)
(*                                                                         *)
(* Abstractions, stated once:                                              *)
(*   - coordinates are points of an integer metre grid and the haversine   *)
(*     distance is the grid (taxicab) distance between them: a metric      *)
(*     that is 0 exactly for identical coordinates;                        *)
(*   - float arithmetic is exact rational arithmetic (a speed 1.2 is       *)
(*     12/10, 22.2 is 222/10); round() is Python's round-half-to-even;     *)
(*   - DataFrame.sort_values is a stable sort, groupby visits its keys in  *)
(*     ascending order, dict iteration over stop_info is by ascending id.  *)
(***************************************************************************)
EXTENDS Integers, Sequences, FiniteSets, TLC

VARIABLES
    \* ---- link generator ----
    lpc,            \* position in create_link_table_memory_optimized
    node_df,        \* the node table read from node_csv
    stop_info,      \* stop id -> [Lat, Lng]      (load_stop_info)
    stop_routes,    \* stop id -> set of route ids (load_stop_info)
    output_csv,     \* rows of the link file, in file order (header left out)
    next_link_id,   \* the id returned by the builder that ran last
    previous_csv,   \* the link file as the run before left it, <<>> in a first run
    CONFIG,         \* the module's CONFIG dict, which config.update rewrites
    chunk_links,    \* the list "chunk_links" of the builder that is running
    pending,        \* the links the running builder's loops have yet to reach
    \* ---- node generator ----
    pc,             \* position in process_all_routes
    route,          \* the route_data being processed: [route_id, Type, n_variants]
    variant,        \* locals of process_route_variant for the current variant
    trip,           \* locals of the latest iteration of a trip loop
    nodes,          \* the list "nodes" of process_route_variant
    all_nodes,      \* the list "all_nodes" of process_all_routes
    variant_nodes,  \* whether process_all_routes has bound "variant_nodes"
    global_node_id, \* the next NodeId
    node_csv,       \* rows of the node file once written, <<>> before
    n_routes, n_variants, n_trips   \* how much input has been consumed

lvars == <<lpc, node_df, stop_info, stop_routes, output_csv, next_link_id,
           previous_csv, CONFIG, chunk_links, pending>>
nvars == <<pc, route, variant, trip, nodes, all_nodes, variant_nodes,
           global_node_id, node_csv, n_routes, n_variants, n_trips>>
vars == <<lvars, nvars>>

-----------------------------------------------------------------------------
(* Bounds *)

MaxNodes == 2
MaxRoutes == 1
MaxVariants == 2
MaxTrips == 2
MaxChunk == 2

-----------------------------------------------------------------------------
(* Program constants *)

WALKING_RADIUS == 400
MAX_WALK_WAIT_TIME == 3600
WALKING_SPEED_NUM == 12
WALKING_SPEED_DEN == 10
MAX_TRANSFER_TIME == 1800
MIN_TRANSFER_TIME == 120
MAX_BUS_LEG == 1800

\* the CONFIG dict as the module defines it; WALKING_SPEED is the fraction
\* WALKING_SPEED_NUM / WALKING_SPEED_DEN
DefaultConfig ==
    [WALKING_RADIUS |-> WALKING_RADIUS,
     MAX_WALK_WAIT_TIME |-> MAX_WALK_WAIT_TIME,
     WALKING_SPEED_NUM |-> WALKING_SPEED_NUM,
     WALKING_SPEED_DEN |-> WALKING_SPEED_DEN,
     MAX_TRANSFER_TIME |-> MAX_TRANSFER_TIME,
     MIN_TRANSFER_TIME |-> MIN_TRANSFER_TIME]

-----------------------------------------------------------------------------
(* Helpers over sequences *)

Range(s) == {s[i] : i \in DOMAIN s}

Abs(x) == IF x < 0 THEN -x ELSE x

RECURSIVE Flatten(_)
Flatten(ss) ==
    IF Len(ss) = 0 THEN <<>> ELSE Head(ss) \o Flatten(Tail(ss))

\* ascending list of a finite set of integers
RECURSIVE SortInts(_)
SortInts(S) ==
    IF S = {} THEN <<>>
    ELSE LET m == CHOOSE x \in S : \A y \in S : x <= y
         IN <<m>> \o SortInts(S \ {m})

PairLess(p, q) == p[1] < q[1] \/ (p[1] = q[1] /\ p[2] < q[2])

\* ascending (lexicographic) list of a finite set of pairs of integers
RECURSIVE SortPairs(_)
SortPairs(S) ==
    IF S = {} THEN <<>>
    ELSE LET m == CHOOSE x \in S : \A y \in S \ {x} : PairLess(x, y)
         IN <<m>> \o SortPairs(S \ {m})

\* DataFrame.sort_values('Timestamp'): rows by ascending Timestamp, rows of
\* equal Timestamp in the order they had
RECURSIVE sort_values(_)
sort_values(s) ==
    IF Len(s) <= 1 THEN s
    ELSE LET t == sort_values(SubSeq(s, 1, Len(s) - 1))
             x == s[Len(s)]
             k == Cardinality({i \in DOMAIN t : t[i].Timestamp <= x.Timestamp})
         IN SubSeq(t, 1, k) \o <<x>> \o SubSeq(t, k + 1, Len(t))

IsArrival(n) == n.Event = "ARRIVAL"
IsDeparture(n) == n.Event = "DEPARTURE"

-----------------------------------------------------------------------------
(* Geodesy of the link generator *)

link_haversine_distance(lat1, lon1, lat2, lon2) ==
    Abs(lat2 - lat1) + Abs(lon2 - lon1)

\* find_stops_within_radius: every other stop of stop_info at a distance of
\* at most radius, in stop_info's order, with its distance
find_stops_within_radius(center_stop_id, info, radius) ==
    LET center == info[center_stop_id]
        Dist(s) == link_haversine_distance(center.Lat, center.Lng,
                                           info[s].Lat, info[s].Lng)
        ids == SortInts(DOMAIN info)
        near == SelectSeq(ids, LAMBDA s : s # center_stop_id /\ Dist(s) <= radius)
    IN [i \in 1..Len(near) |-> [StopId |-> near[i], Distance |-> Dist(near[i])]]

-----------------------------------------------------------------------------
(* The four link builders.  Each computes, in the order of its loops, the   *)
(* links it appends ("from_node", "to_node", "duration"), numbers them from *)
(* start_link_id and returns the rows with the next free link id.           *)

\* link_id is start_link_id for the first row and is increased after each row
AssignIds(cands, start_link_id, mode) ==
    [i \in 1..Len(cands) |->
        [link_id |-> start_link_id + i - 1,
         from_node |-> cands[i].from_node,
         to_node |-> cands[i].to_node,
         duration |-> cands[i].duration,
         mode |-> mode]]

\* BusGroupLinks with the leg bound read as "time_diff <= 1800"
BusGroupLinksInclusive(trip_nodes0) ==
    LET trip_nodes == sort_values(trip_nodes0)
        departures == SelectSeq(trip_nodes, IsDeparture)
        arrivals == SelectSeq(trip_nodes, IsArrival)
        LinkOf(dep) ==
            LET next_arrivals ==
                    SelectSeq(arrivals, LAMBDA a : a.Timestamp > dep.Timestamp)
            IN IF next_arrivals = <<>> THEN <<>>
               ELSE LET next_arrival == next_arrivals[1]
                        time_diff == next_arrival.Timestamp - dep.Timestamp
                    IN IF time_diff <= MAX_BUS_LEG
                       THEN <<[from_node |-> dep.NodeId,
                               to_node |-> next_arrival.NodeId,
                               duration |-> time_diff]>>
                       ELSE <<>>
    IN Flatten([i \in 1..Len(departures) |-> LinkOf(departures[i])])

\* one (RouteId, TripId) group of create_bus_links_to_file
BusGroupLinks(trip_nodes0) ==
    LET trip_nodes == sort_values(trip_nodes0)
        departures == SelectSeq(trip_nodes, IsDeparture)
        arrivals == SelectSeq(trip_nodes, IsArrival)
        LinkOf(dep) ==
            LET next_arrivals ==
                    SelectSeq(arrivals, LAMBDA a : a.Timestamp > dep.Timestamp)
            IN IF next_arrivals = <<>> THEN <<>>
               ELSE LET next_arrival == next_arrivals[1]
                        time_diff == next_arrival.Timestamp - dep.Timestamp
                    IN IF time_diff < MAX_BUS_LEG
                       THEN <<[from_node |-> dep.NodeId,
                               to_node |-> next_arrival.NodeId,
                               duration |-> time_diff]>>
                       ELSE <<>>
    IN Flatten([i \in 1..Len(departures) |-> LinkOf(departures[i])])

BusCandidates(df) ==
    LET keys == SortPairs({<<n.RouteId, n.TripId>> : n \in Range(df)})
        Group(k) == SelectSeq(df, LAMBDA n : n.RouteId = k[1] /\ n.TripId = k[2])
    IN Flatten([i \in 1..Len(keys) |-> BusGroupLinks(Group(keys[i]))])

create_bus_links_to_file(df, start_link_id) ==
    LET cands == BusCandidates(df)
    IN [rows |-> AssignIds(cands, start_link_id, "bus"),
        link_id |-> start_link_id + Len(cands)]

\* WaitGroupLinks with waits capped at half an hour
WaitGroupLinksCapped(stop_nodes) ==
    LET arrivals == sort_values(SelectSeq(stop_nodes, IsArrival))
        departures == sort_values(SelectSeq(stop_nodes, IsDeparture))
        LinksOf(arr) ==
            LET future_deps ==
                    SelectSeq(departures,
                        LAMBDA d : /\ d.Timestamp > arr.Timestamp
                                   /\ d.Timestamp - arr.Timestamp <= MAX_TRANSFER_TIME)
            IN [j \in 1..Len(future_deps) |->
                   [from_node |-> arr.NodeId,
                    to_node |-> future_deps[j].NodeId,
                    duration |-> future_deps[j].Timestamp - arr.Timestamp]]
    IN Flatten([i \in 1..Len(arrivals) |-> LinksOf(arrivals[i])])

\* WaitGroupLinks pairing an ARRIVAL only with departures of other trips
WaitGroupLinksOtherTrips(stop_nodes) ==
    LET arrivals == sort_values(SelectSeq(stop_nodes, IsArrival))
        departures == sort_values(SelectSeq(stop_nodes, IsDeparture))
        LinksOf(arr) ==
            LET future_deps ==
                    SelectSeq(departures, LAMBDA d : /\ d.Timestamp > arr.Timestamp
                                                     /\ d.TripId # arr.TripId)
            IN [j \in 1..Len(future_deps) |->
                   [from_node |-> arr.NodeId,
                    to_node |-> future_deps[j].NodeId,
                    duration |-> future_deps[j].Timestamp - arr.Timestamp]]
    IN Flatten([i \in 1..Len(arrivals) |-> LinksOf(arrivals[i])])

\* one (StopId, RouteId) group of append_wait_links_to_file
WaitGroupLinks(stop_nodes) ==
    LET arrivals == sort_values(SelectSeq(stop_nodes, IsArrival))
        departures == sort_values(SelectSeq(stop_nodes, IsDeparture))
        LinksOf(arr) ==
            LET future_deps ==
                    SelectSeq(departures, LAMBDA d : d.Timestamp > arr.Timestamp)
            IN [j \in 1..Len(future_deps) |->
                   [from_node |-> arr.NodeId,
                    to_node |-> future_deps[j].NodeId,
                    duration |-> future_deps[j].Timestamp - arr.Timestamp]]
    IN Flatten([i \in 1..Len(arrivals) |-> LinksOf(arrivals[i])])

WaitCandidates(df) ==
    LET keys == SortPairs({<<n.StopId, n.RouteId>> : n \in Range(df)})
        Group(k) == SelectSeq(df, LAMBDA n : n.StopId = k[1] /\ n.RouteId = k[2])
    IN Flatten([i \in 1..Len(keys) |-> WaitGroupLinks(Group(keys[i]))])

\* append_wait_links_to_file returning the last id it used
append_wait_links_last_id(df, start_link_id) ==
    LET cands == WaitCandidates(df)
    IN [rows |-> AssignIds(cands, start_link_id, "wait"),
        link_id |-> IF cands = <<>> THEN start_link_id
                    ELSE start_link_id + Len(cands) - 1]

append_wait_links_to_file(df, start_link_id) ==
    LET cands == WaitCandidates(df)
    IN [rows |-> AssignIds(cands, start_link_id, "wait"),
        link_id |-> start_link_id + Len(cands)]

\* TransferGroupLinks without the upper end of the window
TransferGroupLinksNoMax(stop_nodes, max_transfer_time) ==
    LET arrivals == sort_values(SelectSeq(stop_nodes, IsArrival))
        departures == sort_values(SelectSeq(stop_nodes, IsDeparture))
        LinksOf(arr) ==
            LET other_route_deps ==
                    SelectSeq(departures,
                        LAMBDA d : /\ d.RouteId # arr.RouteId
                                   /\ d.Timestamp > arr.Timestamp)
                kept == SelectSeq(other_route_deps,
                        LAMBDA d : d.Timestamp - arr.Timestamp >= CONFIG.MIN_TRANSFER_TIME)
            IN [j \in 1..Len(kept) |->
                   [from_node |-> arr.NodeId,
                    to_node |-> kept[j].NodeId,
                    duration |-> kept[j].Timestamp - arr.Timestamp]]
    IN Flatten([i \in 1..Len(arrivals) |-> LinksOf(arrivals[i])])

\* TransferGroupLinks with the lower end of the window left out
TransferGroupLinksStrictMin(stop_nodes, max_transfer_time) ==
    LET arrivals == sort_values(SelectSeq(stop_nodes, IsArrival))
        departures == sort_values(SelectSeq(stop_nodes, IsDeparture))
        LinksOf(arr) ==
            LET other_route_deps ==
                    SelectSeq(departures,
                        LAMBDA d : /\ d.RouteId # arr.RouteId
                                   /\ d.Timestamp > arr.Timestamp
                                   /\ d.Timestamp - arr.Timestamp <= max_transfer_time)
                kept == SelectSeq(other_route_deps,
                        LAMBDA d : d.Timestamp - arr.Timestamp > CONFIG.MIN_TRANSFER_TIME)
            IN [j \in 1..Len(kept) |->
                   [from_node |-> arr.NodeId,
                    to_node |-> kept[j].NodeId,
                    duration |-> kept[j].Timestamp - arr.Timestamp]]
    IN Flatten([i \in 1..Len(arrivals) |-> LinksOf(arrivals[i])])

\* one StopId group of append_transfer_links_to_file
TransferGroupLinks(stop_nodes, max_transfer_time) ==
    LET arrivals == sort_values(SelectSeq(stop_nodes, IsArrival))
        departures == sort_values(SelectSeq(stop_nodes, IsDeparture))
        LinksOf(arr) ==
            LET other_route_deps ==
                    SelectSeq(departures,
                        LAMBDA d : /\ d.RouteId # arr.RouteId
                                   /\ d.Timestamp > arr.Timestamp
                                   /\ d.Timestamp - arr.Timestamp <= max_transfer_time)
                kept == SelectSeq(other_route_deps,
                        LAMBDA d : d.Timestamp - arr.Timestamp >= CONFIG.MIN_TRANSFER_TIME)
            IN [j \in 1..Len(kept) |->
                   [from_node |-> arr.NodeId,
                    to_node |-> kept[j].NodeId,
                    duration |-> kept[j].Timestamp - arr.Timestamp]]
    IN Flatten([i \in 1..Len(arrivals) |-> LinksOf(arrivals[i])])

TransferCandidates(df, max_transfer_time) ==
    LET keys == SortInts({n.StopId : n \in Range(df)})
        Group(k) == SelectSeq(df, LAMBDA n : n.StopId = k)
    IN Flatten([i \in 1..Len(keys) |->
                   TransferGroupLinks(Group(keys[i]), max_transfer_time)])

append_transfer_links_to_file(df, start_link_id, max_transfer_time) ==
    LET cands == TransferCandidates(df, max_transfer_time)
    IN [rows |-> AssignIds(cands, start_link_id, "transfer"),
        link_id |-> start_link_id + Len(cands)]

\* Timestamp >= arr_time + walk_distance / CONFIG['WALKING_SPEED'], for a speed
\* other than 0, where elapsed is Timestamp - arr_time
DepartsAfterWalk(elapsed, walk_distance) ==
    IF CONFIG.WALKING_SPEED_NUM > 0
    THEN elapsed * CONFIG.WALKING_SPEED_NUM >= walk_distance * CONFIG.WALKING_SPEED_DEN
    ELSE elapsed * CONFIG.WALKING_SPEED_NUM <= walk_distance * CONFIG.WALKING_SPEED_DEN

\* walk_distance / CONFIG['WALKING_SPEED'] raises ZeroDivisionError: the speed
\* is 0 and some arrival has a stop within the radius
walk_time_raises(df, info, walking_radius) ==
    /\ CONFIG.WALKING_SPEED_NUM = 0
    /\ \E a \in Range(SelectSeq(df, IsArrival)) :
           find_stops_within_radius(a.StopId, info, walking_radius) # <<>>

\* WalkLinksOf without the test for a shared route
WalkLinksOfAnyRoutes(arrival, df, info, routes, walking_radius, max_walk_wait_time) ==
    LET all_departures == SelectSeq(df, IsDeparture)
        departures_by_stop(s) ==
            sort_values(SelectSeq(all_departures, LAMBDA d : d.StopId = s))
        nearby_stops == find_stops_within_radius(arrival.StopId, info, walking_radius)
        LinksTo(nearby) ==
            LET nearby_deps == departures_by_stop(nearby.StopId)
                valid_deps ==
                   SelectSeq(nearby_deps,
                       LAMBDA d :
                          /\ DepartsAfterWalk(d.Timestamp - arrival.Timestamp,
                                              nearby.Distance)
                          /\ d.Timestamp - arrival.Timestamp <= max_walk_wait_time)
            IN [j \in 1..Len(valid_deps) |->
                   [from_node |-> arrival.NodeId,
                    to_node |-> valid_deps[j].NodeId,
                    duration |-> valid_deps[j].Timestamp - arrival.Timestamp]]
    IN Flatten([i \in 1..Len(nearby_stops) |-> LinksTo(nearby_stops[i])])

\* WalkLinksOf without the bound on walking plus waiting
WalkLinksOfNoMaxWait(arrival, df, info, routes, walking_radius, max_walk_wait_time) ==
    LET all_departures == SelectSeq(df, IsDeparture)
        departures_by_stop(s) ==
            sort_values(SelectSeq(all_departures, LAMBDA d : d.StopId = s))
        nearby_stops == find_stops_within_radius(arrival.StopId, info, walking_radius)
        LinksTo(nearby) ==
            IF routes[arrival.StopId] \cap routes[nearby.StopId] # {} THEN <<>>
            ELSE LET nearby_deps == departures_by_stop(nearby.StopId)
                     valid_deps ==
                        SelectSeq(nearby_deps,
                            LAMBDA d :
                               DepartsAfterWalk(d.Timestamp - arrival.Timestamp,
                                                nearby.Distance))
                 IN [j \in 1..Len(valid_deps) |->
                        [from_node |-> arrival.NodeId,
                         to_node |-> valid_deps[j].NodeId,
                         duration |-> valid_deps[j].Timestamp - arrival.Timestamp]]
    IN Flatten([i \in 1..Len(nearby_stops) |-> LinksTo(nearby_stops[i])])

\* the links of one ARRIVAL row in append_walk_links_to_file
WalkLinksOf(arrival, df, info, routes, walking_radius, max_walk_wait_time) ==
    LET all_departures == SelectSeq(df, IsDeparture)
        departures_by_stop(s) ==
            sort_values(SelectSeq(all_departures, LAMBDA d : d.StopId = s))
        nearby_stops == find_stops_within_radius(arrival.StopId, info, walking_radius)
        LinksTo(nearby) ==
            IF routes[arrival.StopId] \cap routes[nearby.StopId] # {} THEN <<>>
            ELSE LET nearby_deps == departures_by_stop(nearby.StopId)
                     \* Timestamp >= arr_time + walk_distance / WALKING_SPEED
                     valid_deps ==
                        SelectSeq(nearby_deps,
                            LAMBDA d :
                               /\ DepartsAfterWalk(d.Timestamp - arrival.Timestamp,
                                                   nearby.Distance)
                               /\ d.Timestamp - arrival.Timestamp <= max_walk_wait_time)
                 IN [j \in 1..Len(valid_deps) |->
                        [from_node |-> arrival.NodeId,
                         to_node |-> valid_deps[j].NodeId,
                         duration |-> valid_deps[j].Timestamp - arrival.Timestamp]]
    IN Flatten([i \in 1..Len(nearby_stops) |-> LinksTo(nearby_stops[i])])

WalkCandidates(df, info, routes, walking_radius, max_walk_wait_time) ==
    LET arrivals == SelectSeq(df, IsArrival)
    IN Flatten([i \in 1..Len(arrivals) |->
                   WalkLinksOf(arrivals[i], df, info, routes,
                               walking_radius, max_walk_wait_time)])

append_walk_links_to_file(df, info, routes, start_link_id, walking_radius, max_walk_wait_time) ==
    LET cands == WalkCandidates(df, info, routes, walking_radius, max_walk_wait_time)
    IN [rows |-> AssignIds(cands, start_link_id, "walk"),
        link_id |-> start_link_id + Len(cands)]

-----------------------------------------------------------------------------
(* create_link_table_memory_optimized: the four builders in sequence *)

\* RunBusBuilder with the file opened for appending
RunBusBuilderAppend ==
    /\ lpc = "bus"
    /\ LET r == create_bus_links_to_file(node_df, 1)
       IN /\ output_csv' = output_csv \o r.rows
          /\ next_link_id' = r.link_id
    /\ lpc' = "wait"
    /\ UNCHANGED <<node_df, stop_info, stop_routes, previous_csv, CONFIG, chunk_links,
                   pending, nvars>>

\* create_bus_links_to_file opens the file with 'w' and starts from id 1
RunBusBuilder ==
    /\ lpc = "bus"
    /\ LET r == create_bus_links_to_file(node_df, 1)
       IN /\ output_csv' = r.rows
          /\ next_link_id' = r.link_id
    /\ lpc' = "wait"
    /\ UNCHANGED <<node_df, stop_info, stop_routes, previous_csv, CONFIG, chunk_links,
                   pending, nvars>>

RunWaitBuilder ==
    /\ lpc = "wait"
    /\ LET r == append_wait_links_to_file(node_df, next_link_id)
       IN /\ output_csv' = output_csv \o r.rows
          /\ next_link_id' = r.link_id
    /\ lpc' = "transfer"
    /\ UNCHANGED <<node_df, stop_info, stop_routes, previous_csv, CONFIG, chunk_links,
                   pending, nvars>>

RunTransferBuilder ==
    /\ lpc = "transfer"
    /\ LET r == append_transfer_links_to_file(node_df, next_link_id,
                                              CONFIG.MAX_TRANSFER_TIME)
       IN /\ output_csv' = output_csv \o r.rows
          /\ next_link_id' = r.link_id
    /\ lpc' = "walk"
    /\ UNCHANGED <<node_df, stop_info, stop_routes, previous_csv, CONFIG, chunk_links,
                   pending, nvars>>

\* the exception leaves the builder before any walk link is buffered, and main
\* exits with status 1
RunWalkBuilder ==
    /\ lpc = "walk"
    /\ IF walk_time_raises(node_df, stop_info, CONFIG.WALKING_RADIUS)
       THEN /\ lpc' = "failed"
            /\ UNCHANGED <<output_csv, next_link_id>>
       ELSE /\ LET r == append_walk_links_to_file(node_df, stop_info, stop_routes,
                                                  next_link_id, CONFIG.WALKING_RADIUS,
                                                  CONFIG.MAX_WALK_WAIT_TIME)
               IN /\ output_csv' = output_csv \o r.rows
                  /\ next_link_id' = r.link_id
            /\ lpc' = "done"
    /\ UNCHANGED <<node_df, stop_info, stop_routes, previous_csv, CONFIG, chunk_links,
                   pending, nvars>>

NextLinks ==
    \/ RunBusBuilder
    \/ RunWaitBuilder
    \/ RunTransferBuilder
    \/ RunWalkBuilder

-----------------------------------------------------------------------------
(* Node generator: program constants *)

WAITING_TIME == 30
SKIP_INVALID_TRIPS == TRUE
MIN_AVG_SPEED == 1
MAX_AVG_SPEED_NUM == 222
MAX_AVG_SPEED_DEN == 10

\* WAITING_TIME_BY_TYPE = {}: every entry of the dictionary is commented out
WAITING_TIME_BY_TYPE == [t \in {} |-> 0]

-----------------------------------------------------------------------------
(* Node generator: pure functions *)

\* An optional value: <<>> is None, <<v>> is the value v.
None == <<>>
Some(v) == <<v>>

\* A time field of a trip is [is_str, parts]: is_str is FALSE for a missing or
\* non-string value; parts is time_str.strip().split(':'), each part <<v>> when
\* int() reads it as v and <<>> when int() raises.
parse_time_to_seconds(time_str, is_next_day) ==
    IF ~time_str.is_str THEN None
    ELSE LET parts == time_str.parts
         IN IF Len(parts) # 2 THEN None
            ELSE IF parts[1] = <<>> \/ parts[2] = <<>> THEN None
            ELSE LET hours == parts[1][1]
                     minutes == parts[2][1]
                 IN IF hours < 0 \/ hours > 23 \/ minutes < 0 \/ minutes > 59
                    THEN None
                    ELSE LET seconds == hours * 3600 + minutes * 60
                         IN Some(IF is_next_day THEN seconds + 24 * 3600
                                 ELSE seconds)

\* Floats are exact fractions [n, d] in lowest terms with d > 0.
RECURSIVE Gcd(_, _)
Gcd(a, b) == IF b = 0 THEN a ELSE Gcd(b, a % b)

Frac(n, d) == LET g == Gcd(Abs(n), d) IN [n |-> n \div g, d |-> d \div g]

FracAdd(x, y) ==
    LET l == (x.d \div Gcd(x.d, y.d)) * y.d
    IN Frac(x.n * (l \div x.d) + y.n * (l \div y.d), l)

\* x / y for x >= 0 and y > 0, cancelling before multiplying
FracDiv(x, y) ==
    LET g1 == Gcd(x.n, y.n)
        g2 == Gcd(y.d, x.d)
    IN IF x.n = 0 THEN Frac(0, 1)
       ELSE Frac((x.n \div g1) * (y.d \div g2), (x.d \div g2) * (y.n \div g1))

FracLess(x, y) == x.n * y.d < y.n * x.d

\* round(x) for x >= 0: to the nearest integer, a half to the even neighbour
round(x) ==
    LET q == x.n \div x.d
        r == x.n % x.d
    IN IF 2 * r < x.d THEN q
       ELSE IF 2 * r > x.d THEN q + 1
       ELSE IF q % 2 = 0 THEN q ELSE q + 1

haversine_distance(lat1, lng1, lat2, lng2) ==
    Abs(lat2 - lat1) + Abs(lng2 - lng1)

\* the first vertex of the path at the least distance from the stop
find_nearest_point_on_path(stop_lat, stop_lng, path_lats, path_lngs) ==
    LET D(i) == haversine_distance(stop_lat, stop_lng, path_lats[i], path_lngs[i])
    IN CHOOSE i \in 1..Len(path_lats) :
          /\ \A j \in 1..Len(path_lats) : D(i) <= D(j)
          /\ \A j \in 1..(i - 1) : D(j) > D(i)

RECURSIVE PathLength(_, _, _, _)
PathLength(path_lats, path_lngs, start_idx, end_idx) ==
    IF start_idx >= end_idx THEN 0
    ELSE haversine_distance(path_lats[start_idx], path_lngs[start_idx],
                            path_lats[start_idx + 1], path_lngs[start_idx + 1])
         + PathLength(path_lats, path_lngs, start_idx + 1, end_idx)

calculate_real_distance(stop1, stop2, path_lats, path_lngs) ==
    LET nearest1 == find_nearest_point_on_path(stop1.Lat, stop1.Lng, path_lats, path_lngs)
        nearest2 == find_nearest_point_on_path(stop2.Lat, stop2.Lng, path_lats, path_lngs)
        start_idx == IF nearest1 < nearest2 THEN nearest1 ELSE nearest2
        end_idx == IF nearest1 < nearest2 THEN nearest2 ELSE nearest1
    IN PathLength(path_lats, path_lngs, start_idx, end_idx)

RECURSIVE SumSeq(_)
SumSeq(s) == IF s = <<>> THEN 0 ELSE Head(s) + SumSeq(Tail(s))

\* the structural checks of process_route_variant
VariantIsSkipped(input) ==
    \/ input.stops = <<>>
    \/ input.lat = <<>> \/ input.lng = <<>>
    \/ Len(input.stops) < 2
    \/ Len(input.lat) < 2 \/ Len(input.lng) < 2

\* is_loop_route with only the latitudes compared
is_loop_route_lat_only(stops) ==
    /\ Len(stops) = 2
    /\ stops[1].Lat = stops[2].Lat

is_loop_route(stops) ==
    /\ Len(stops) = 2
    /\ stops[1].Lat = stops[2].Lat
    /\ stops[1].Lng = stops[2].Lng

stop_distances(input) ==
    IF is_loop_route(input.stops)
    THEN <<PathLength(input.lat, input.lng, 1, Len(input.lat))>>
    ELSE [i \in 1..(Len(input.stops) - 1) |->
            calculate_real_distance(input.stops[i], input.stops[i + 1],
                                    input.lat, input.lng)]

waiting_time_of(bus_type) ==
    IF bus_type \in DOMAIN WAITING_TIME_BY_TYPE
    THEN WAITING_TIME_BY_TYPE[bus_type] ELSE WAITING_TIME

Node(id, v, trip_id, stop, timestamp, event) ==
    [NodeId |-> id, RouteId |-> v.route_id, RouteVarId |-> v.variant_id,
     TripId |-> trip_id, StopId |-> stop.StopId,
     Timestamp |-> timestamp, Event |-> event]

\* LoopTripNodes with the arrival written as a time of day
LoopTripNodesTimeOfDay(v, trip_id, start_seconds, end_seconds, first_id) ==
    << Node(first_id, v, trip_id, v.stops[1],
            round(Frac(start_seconds, 1)), "DEPARTURE"),
       Node(first_id + 1, v, trip_id, v.stops[2],
            round(Frac(end_seconds % 86400, 1)), "ARRIVAL") >>

\* the events of one trip of a loop variant
LoopTripNodes(v, trip_id, start_seconds, end_seconds, first_id) ==
    << Node(first_id, v, trip_id, v.stops[1],
            round(Frac(start_seconds, 1)), "DEPARTURE"),
       Node(first_id + 1, v, trip_id, v.stops[2],
            round(Frac(end_seconds, 1)), "ARRIVAL") >>

\* StopNodes with global_node_id not increased after an interior ARRIVAL
RECURSIVE StopNodesSharedId(_, _, _, _, _, _)
StopNodesSharedId(v, trip_id, avg_speed, i, current_time, id) ==
    LET n == Len(v.stops)
    IN IF i > n THEN <<>>
       ELSE IF i = 1
       THEN <<Node(id, v, trip_id, v.stops[1], round(current_time), "DEPARTURE")>>
            \o StopNodesSharedId(v, trip_id, avg_speed, 2, current_time, id + 1)
       ELSE LET distance_from_previous == v.stop_distances[i - 1]
                travel_time == FracDiv(Frac(distance_from_previous, 1), avg_speed)
                arr == FracAdd(current_time, travel_time)
                dep == FracAdd(arr, Frac(v.waiting_time, 1))
            IN IF i < n
               THEN << Node(id, v, trip_id, v.stops[i], round(arr), "ARRIVAL"),
                       Node(id, v, trip_id, v.stops[i], round(dep), "DEPARTURE") >>
                    \o StopNodesSharedId(v, trip_id, avg_speed, i + 1, dep, id + 1)
               ELSE <<Node(id, v, trip_id, v.stops[i], round(arr), "ARRIVAL")>>

\* StopNodes with the dwell added only after the DEPARTURE is written
RECURSIVE StopNodesLateDwell(_, _, _, _, _, _)
StopNodesLateDwell(v, trip_id, avg_speed, i, current_time, id) ==
    LET n == Len(v.stops)
    IN IF i > n THEN <<>>
       ELSE IF i = 1
       THEN <<Node(id, v, trip_id, v.stops[1], round(current_time), "DEPARTURE")>>
            \o StopNodesLateDwell(v, trip_id, avg_speed, 2, current_time, id + 1)
       ELSE LET distance_from_previous == v.stop_distances[i - 1]
                travel_time == FracDiv(Frac(distance_from_previous, 1), avg_speed)
                arr == FracAdd(current_time, travel_time)
                dep == FracAdd(arr, Frac(v.waiting_time, 1))
            IN IF i < n
               THEN << Node(id, v, trip_id, v.stops[i], round(arr), "ARRIVAL"),
                       Node(id + 1, v, trip_id, v.stops[i], round(arr), "DEPARTURE") >>
                    \o StopNodesLateDwell(v, trip_id, avg_speed, i + 1, dep, id + 2)
               ELSE <<Node(id, v, trip_id, v.stops[i], round(arr), "ARRIVAL")>>

\* StopNodes with a DEPARTURE written at the last stop as well
RECURSIVE StopNodesDepartLast(_, _, _, _, _, _)
StopNodesDepartLast(v, trip_id, avg_speed, i, current_time, id) ==
    LET n == Len(v.stops)
    IN IF i > n THEN <<>>
       ELSE IF i = 1
       THEN <<Node(id, v, trip_id, v.stops[1], round(current_time), "DEPARTURE")>>
            \o StopNodesDepartLast(v, trip_id, avg_speed, 2, current_time, id + 1)
       ELSE LET distance_from_previous == v.stop_distances[i - 1]
                travel_time == FracDiv(Frac(distance_from_previous, 1), avg_speed)
                arr == FracAdd(current_time, travel_time)
                dep == FracAdd(arr, Frac(v.waiting_time, 1))
            IN << Node(id, v, trip_id, v.stops[i], round(arr), "ARRIVAL"),
                  Node(id + 1, v, trip_id, v.stops[i], round(dep), "DEPARTURE") >>
               \o StopNodesDepartLast(v, trip_id, avg_speed, i + 1, dep, id + 2)

\* the events of stops i.. of one trip of a non-loop variant
RECURSIVE StopNodes(_, _, _, _, _, _)
StopNodes(v, trip_id, avg_speed, i, current_time, id) ==
    LET n == Len(v.stops)
    IN IF i > n THEN <<>>
       ELSE IF i = 1
       THEN <<Node(id, v, trip_id, v.stops[1], round(current_time), "DEPARTURE")>>
            \o StopNodes(v, trip_id, avg_speed, 2, current_time, id + 1)
       ELSE LET distance_from_previous == v.stop_distances[i - 1]
                travel_time == FracDiv(Frac(distance_from_previous, 1), avg_speed)
                arr == FracAdd(current_time, travel_time)
                dep == FracAdd(arr, Frac(v.waiting_time, 1))
            IN IF i < n
               THEN << Node(id, v, trip_id, v.stops[i], round(arr), "ARRIVAL"),
                       Node(id + 1, v, trip_id, v.stops[i], round(dep), "DEPARTURE") >>
                    \o StopNodes(v, trip_id, avg_speed, i + 1, dep, id + 2)
               ELSE <<Node(id, v, trip_id, v.stops[i], round(arr), "ARRIVAL")>>

\* overnight_end with the test read as "end_seconds < start_seconds"
overnight_end_strict(start_seconds, end_seconds, end_time) ==
    IF end_seconds < start_seconds
    THEN LET end_seconds_next_day == parse_time_to_seconds(end_time, TRUE)
         IN IF end_seconds_next_day # None /\ end_seconds_next_day[1] # 0
            THEN end_seconds_next_day[1]
            ELSE end_seconds
    ELSE end_seconds

\* the overnight test: an end not after the start is read again as a time of
\* the next day
overnight_end(start_seconds, end_seconds, end_time) ==
    IF end_seconds <= start_seconds
    THEN LET end_seconds_next_day == parse_time_to_seconds(end_time, TRUE)
         IN IF end_seconds_next_day # None /\ end_seconds_next_day[1] # 0
            THEN end_seconds_next_day[1]
            ELSE end_seconds
    ELSE end_seconds

\* speed_check without the upper bound
speed_check_no_max(total_distance, traveling_time) ==
    LET avg_speed == Frac(total_distance, traveling_time)
    IN IF FracLess(avg_speed, Frac(MIN_AVG_SPEED, 1)) THEN "too_slow"
       ELSE "ok"

\* the plausibility test of avg_speed = total_distance / traveling_time
speed_check(total_distance, traveling_time) ==
    LET avg_speed == Frac(total_distance, traveling_time)
    IN IF FracLess(avg_speed, Frac(MIN_AVG_SPEED, 1)) THEN "too_slow"
       ELSE IF FracLess(Frac(MAX_AVG_SPEED_NUM, MAX_AVG_SPEED_DEN), avg_speed)
       THEN "too_fast"
       ELSE "ok"

\* the events appended for an accepted trip
TripNodes(v, trip_id, start_seconds, end_seconds, traveling_time, first_id) ==
    IF v.is_loop_route
    THEN LoopTripNodes(v, trip_id, start_seconds, end_seconds, first_id)
    ELSE StopNodes(v, trip_id, Frac(v.total_distance, traveling_time), 1,
                   Frac(start_seconds, 1), first_id)

\* one iteration of the trip loop of process_route_variant: the locals it
\* computes, its outcome and the events it appends
ProcessTrip(v, t, first_id) ==
    LET start0 == parse_time_to_seconds(t.StartTime, FALSE)
        end0 == parse_time_to_seconds(t.EndTime, FALSE)
        base == [TripId |-> t.TripId, variant_id |-> v.variant_id,
                 StartTime |-> t.StartTime, EndTime |-> t.EndTime,
                 start_seconds |-> start0, end_seconds |-> end0,
                 traveling_time |-> 0, first_id |-> first_id,
                 outcome |-> "invalid_time", events |-> <<>>]
    IN IF start0 = None \/ end0 = None
       THEN IF SKIP_INVALID_TRIPS THEN base
            ELSE [base EXCEPT !.outcome = "raise"]
       ELSE
        LET start_seconds == start0[1]
            end_seconds == overnight_end(start_seconds, end0[1], t.EndTime)
            total_waiting_time == (Len(v.stops) - 1) * v.waiting_time
            traveling_time == end_seconds - start_seconds - total_waiting_time
            timed == [base EXCEPT !.end_seconds = Some(end_seconds),
                                  !.traveling_time = traveling_time]
        IN IF traveling_time <= 0
           THEN IF SKIP_INVALID_TRIPS
                THEN [timed EXCEPT !.outcome = "no_travel_time"]
                ELSE [timed EXCEPT !.outcome = "raise"]
           ELSE LET verdict == speed_check(v.total_distance, traveling_time)
                IN IF verdict # "ok" THEN [timed EXCEPT !.outcome = verdict]
                   ELSE [timed EXCEPT
                           !.outcome = "emitted",
                           !.events = TripNodes(v, t.TripId, start_seconds,
                                                end_seconds, traveling_time,
                                                first_id)]

-----------------------------------------------------------------------------
(* Inputs of the node generator *)

HHMM(h, m) == [is_str |-> TRUE, parts |-> <<Some(h), Some(m)>>]
Missing == [is_str |-> FALSE, parts |-> <<>>]
OnePart(h) == [is_str |-> TRUE, parts |-> <<Some(h)>>]
NotANumber(m) == [is_str |-> TRUE, parts |-> <<None, Some(m)>>]

Trip(id, start, end) == [TripId |-> id, StartTime |-> start, EndTime |-> end]

\* the (StartTime, EndTime) pairs of the trips of the input: a day trip, an
\* overnight trip, equal start and end, a one minute trip, and time fields
\* that do not parse (missing, not a number, one part only, hour 24)
TripTimes == { <<HHMM(7, 0), HHMM(7, 10)>>,
               <<HHMM(22, 30), HHMM(1, 30)>>,
               <<HHMM(7, 0), HHMM(7, 0)>>,
               <<HHMM(7, 0), HHMM(7, 1)>>,
               <<Missing, HHMM(7, 10)>>,
               <<NotANumber(0), HHMM(7, 10)>>,
               <<HHMM(7, 0), OnePart(7)>>,
               <<HHMM(7, 0), HHMM(24, 0)>> }
TripIds == {1, 2}

TripInputs == {Trip(id, tt[1], tt[2]) : id \in TripIds, tt \in TripTimes}

Stop(id, lat, lng) == [StopId |-> id, Lat |-> lat, Lng |-> lng]

\* three stops 1100 m apart on a path through them
Line3 == [stops |-> <<Stop(1, 0, 0), Stop(2, 0, 1100), Stop(3, 0, 2200)>>,
          lat |-> <<0, 0, 0>>, lng |-> <<0, 1100, 2200>>]
\* a 107.4 km line with segments of unequal length
Long3 == [stops |-> <<Stop(1, 0, 0), Stop(4, 0, 29005), Stop(5, 0, 107400)>>,
          lat |-> <<0, 0, 0>>, lng |-> <<0, 29005, 107400>>]
\* the first two stops have the same coordinates (not a loop: three stops)
Twin3 == [stops |-> <<Stop(1, 0, 0), Stop(6, 0, 0), Stop(3, 0, 2200)>>,
          lat |-> <<0, 0>>, lng |-> <<0, 2200>>]
\* a loop: two stops at the same coordinates, a path of 12 km around
Loop2 == [stops |-> <<Stop(7, 0, 0), Stop(8, 0, 0)>>,
          lat |-> <<0, 6000, 0>>, lng |-> <<0, 0, 0>>]
\* two stops 2200 m apart
Pair2 == [stops |-> <<Stop(1, 0, 0), Stop(3, 0, 2200)>>,
          lat |-> <<0, 0, 0>>, lng |-> <<0, 1100, 2200>>]
\* structurally invalid: one stop; a path of one vertex; a path on which both
\* stops project to the same vertex (total_distance = 0)
OneStop == [stops |-> <<Stop(1, 0, 0)>>, lat |-> <<0, 0>>, lng |-> <<0, 1100>>]
Degenerate == [stops |-> <<Stop(1, 0, 0), Stop(2, 0, 10)>>,
               lat |-> <<0, 0>>, lng |-> <<0, 5000>>]

VariantInputs == {Line3, Long3, Twin3, Pair2, Loop2, OneStop, Degenerate}

BusTypes == {"Unknown"}

NoRoute == [route_id |-> 0, Type |-> "Unknown", n_variants |-> 0]
NoVariant == [route_id |-> 0, variant_id |-> 0, stops |-> <<>>,
              stop_distances |-> <<>>, total_distance |-> 0,
              is_loop_route |-> FALSE, waiting_time |-> 0, skipped |-> FALSE]
NoTrip == [TripId |-> 0, variant_id |-> 0, StartTime |-> Missing, EndTime |-> Missing,
           start_seconds |-> None, end_seconds |-> None, traveling_time |-> 0,
           first_id |-> 0, outcome |-> "none", events |-> <<>>]

-----------------------------------------------------------------------------
(* process_all_routes *)

\* for idx, route_key in enumerate(route_keys, 1): the next route of the file
NextRoute ==
    /\ pc = "route_loop"
    /\ n_routes < MaxRoutes
    /\ \E type \in BusTypes, nv \in 0..(MaxVariants - n_variants) :
          route' = [route_id |-> n_routes + 1, Type |-> type, n_variants |-> nv]
    /\ n_routes' = n_routes + 1
    /\ pc' = "variant_loop"
    /\ UNCHANGED <<variant, trip, nodes, all_nodes, variant_nodes,
                   global_node_id, node_csv, n_variants, n_trips, lvars>>

\* process_route_variant up to the trip loop: the structural checks, the
\* distances, the loop test.  A skipped variant returns ([], global_node_id).
StartVariant ==
    /\ pc = "variant_loop"
    /\ route.n_variants > 0
    /\ \E input \in VariantInputs :
         LET dists == stop_distances(input)
             total == SumSeq(dists)
             skip == VariantIsSkipped(input) \/ total <= 0
         IN /\ variant' =
                 [route_id |-> route.route_id,
                  variant_id |-> n_variants + 1,
                  stops |-> input.stops,
                  stop_distances |-> IF skip THEN <<>> ELSE dists,
                  total_distance |-> IF skip THEN 0 ELSE total,
                  is_loop_route |-> ~VariantIsSkipped(input)
                                      /\ is_loop_route(input.stops),
                  waiting_time |-> waiting_time_of(route.Type),
                  skipped |-> skip]
            /\ pc' = IF skip THEN "variant_loop" ELSE "trip_loop"
            /\ variant_nodes' = IF skip THEN TRUE ELSE variant_nodes
    /\ route' = [route EXCEPT !.n_variants = @ - 1]
    /\ n_variants' = n_variants + 1
    /\ nodes' = <<>>
    /\ UNCHANGED <<trip, all_nodes, global_node_id, node_csv, n_routes, n_trips, lvars>>

\* one iteration of "for trip in trips"
TripStep ==
    /\ pc = "trip_loop"
    /\ n_trips < MaxTrips
    /\ \E t \in TripInputs :
         LET r == ProcessTrip(variant, t, global_node_id)
         IN /\ trip' = r
            /\ nodes' = nodes \o r.events
            /\ global_node_id' = global_node_id + Len(r.events)
            /\ pc' = IF r.outcome = "raise" THEN "aborted" ELSE "trip_loop"
    /\ n_trips' = n_trips + 1
    /\ UNCHANGED <<route, variant, all_nodes, variant_nodes, node_csv,
                   n_routes, n_variants, lvars>>

\* return nodes, global_node_id; all_nodes.extend(variant_nodes)
ReturnVariant ==
    /\ pc = "trip_loop"
    /\ all_nodes' = all_nodes \o nodes
    /\ nodes' = <<>>
    /\ variant_nodes' = TRUE
    /\ pc' = "variant_loop"
    /\ UNCHANGED <<route, variant, trip, global_node_id, node_csv,
                   n_routes, n_variants, n_trips, lvars>>

\* the print after the variant loop reads variant_nodes: a NameError when no
\* variant has been processed yet
EndRoute ==
    /\ pc = "variant_loop"
    /\ route.n_variants = 0
    /\ pc' = IF variant_nodes THEN "route_loop" ELSE "aborted"
    /\ UNCHANGED <<route, variant, trip, nodes, all_nodes, variant_nodes,
                   global_node_id, node_csv, n_routes, n_variants, n_trips, lvars>>

\* the routes of the file are exhausted: write the CSV
WriteNodeCsv ==
    /\ pc = "route_loop"
    /\ node_csv' = all_nodes
    /\ pc' = "done"
    /\ UNCHANGED <<route, variant, trip, nodes, all_nodes, variant_nodes,
                   global_node_id, n_routes, n_variants, n_trips, lvars>>

NextNodes ==
    \/ NextRoute
    \/ StartVariant
    \/ TripStep
    \/ ReturnVariant
    \/ EndRoute
    \/ WriteNodeCsv

NodeGeneratorOff ==
    /\ pc = "off"
    /\ route = NoRoute
    /\ variant = NoVariant
    /\ trip = NoTrip
    /\ nodes = <<>>
    /\ all_nodes = <<>>
    /\ variant_nodes = FALSE
    /\ global_node_id = 1
    /\ node_csv = <<>>
    /\ n_routes = 0 /\ n_variants = 0 /\ n_trips = 0

LinkGeneratorOff ==
    /\ lpc = "off"
    /\ node_df = <<>>
    /\ stop_info = <<>>
    /\ stop_routes = <<>>
    /\ output_csv = <<>>
    /\ next_link_id = 1
    /\ previous_csv = None
    /\ CONFIG = DefaultConfig
    /\ chunk_links = <<>>
    /\ pending = None

InitNodes ==
    /\ pc = "route_loop"
    /\ route = NoRoute
    /\ variant = NoVariant
    /\ trip = NoTrip
    /\ nodes = <<>>
    /\ all_nodes = <<>>
    /\ variant_nodes = FALSE
    /\ global_node_id = 1
    /\ node_csv = <<>>
    /\ n_routes = 0 /\ n_variants = 0 /\ n_trips = 0
    /\ LinkGeneratorOff

SpecNodes == InitNodes /\ [][NextNodes]_vars

-----------------------------------------------------------------------------
(* Inputs of the link generator: node tables and stop catalogues *)

Events == {"ARRIVAL", "DEPARTURE"}

\* every table of at most MaxNodes rows over the given field values; NodeId is
\* the row number, as the node writer assigns it
NodeTables(route_ids, trip_ids, stop_ids, times) ==
    LET Rows == [RouteId : route_ids, TripId : trip_ids, StopId : stop_ids,
                 Timestamp : times, Event : Events]
        Table(f) == [i \in DOMAIN f |->
                        [NodeId |-> i, RouteId |-> f[i].RouteId,
                         RouteVarId |-> f[i].RouteId,
                         TripId |-> f[i].TripId, StopId |-> f[i].StopId,
                         Timestamp |-> f[i].Timestamp, Event |-> f[i].Event]]
    IN {Table(f) : f \in UNION {[1..n -> Rows] : n \in 0..MaxNodes}}

\* two stops, a given distance apart on one street, with given route sets
Catalogue(dist, r1, r2) ==
    [info |-> (1 :> [Lat |-> 0, Lng |-> 0]) @@ (2 :> [Lat |-> 0, Lng |-> dist]),
     routes |-> (1 :> r1) @@ (2 :> r2)]

\* timestamps whose differences are 20, 100, 120, 1800, 1820 and 1920 s
JoinTimes == {28000, 28100, 28120, 29920}

\* both stops on both routes, 200 m apart
JoinCatalogue == Catalogue(200, {1, 2}, {1, 2})

InitLinksWith(tables, catalogues) ==
    /\ lpc = "bus"
    /\ node_df \in tables
    /\ \E c \in catalogues : stop_info = c.info /\ stop_routes = c.routes
    /\ output_csv = <<>>
    /\ next_link_id = 1
    /\ previous_csv = None
    /\ CONFIG = DefaultConfig
    /\ chunk_links = <<>>
    /\ pending = None
    /\ NodeGeneratorOff

\* spec section 8, scenario 2: at stop 1, route 1 arrives at 28000 and route 2
\* departs at 28200 and at 30000
TransferScenario ==
    << [NodeId |-> 1, RouteId |-> 1, RouteVarId |-> 1, TripId |-> 1, StopId |-> 1,
        Timestamp |-> 28000, Event |-> "ARRIVAL"],
       [NodeId |-> 2, RouteId |-> 2, RouteVarId |-> 2, TripId |-> 1, StopId |-> 1,
        Timestamp |-> 28200, Event |-> "DEPARTURE"],
       [NodeId |-> 3, RouteId |-> 2, RouteVarId |-> 2, TripId |-> 2, StopId |-> 1,
        Timestamp |-> 30000, Event |-> "DEPARTURE"] >>

\* the ends of the transfer window: at stop 1, route 1 arrives at 28000 and
\* route 2 departs 119, 120, 1800 and 1801 s later
WindowScenario ==
    << [NodeId |-> 1, RouteId |-> 1, RouteVarId |-> 1, TripId |-> 1, StopId |-> 1,
        Timestamp |-> 28000, Event |-> "ARRIVAL"],
       [NodeId |-> 2, RouteId |-> 2, RouteVarId |-> 2, TripId |-> 1, StopId |-> 1,
        Timestamp |-> 28119, Event |-> "DEPARTURE"],
       [NodeId |-> 3, RouteId |-> 2, RouteVarId |-> 2, TripId |-> 2, StopId |-> 1,
        Timestamp |-> 28120, Event |-> "DEPARTURE"],
       [NodeId |-> 4, RouteId |-> 2, RouteVarId |-> 2, TripId |-> 3, StopId |-> 1,
        Timestamp |-> 29800, Event |-> "DEPARTURE"],
       [NodeId |-> 5, RouteId |-> 2, RouteVarId |-> 2, TripId |-> 4, StopId |-> 1,
        Timestamp |-> 29801, Event |-> "DEPARTURE"] >>

\* node tables over two routes, two trips and two stops; the ride, wait and
\* transfer builders read nothing of the catalogue
InitJoin ==
    InitLinksWith(NodeTables({1, 2}, {1, 2}, {1, 2}, JoinTimes)
                      \cup {TransferScenario, WindowScenario},
                  {JoinCatalogue})

SpecJoin == InitJoin /\ [][NextLinks]_vars

\* timestamps whose differences are 0, 100, 3500, 3600 and 3700 s
WalkTimes == {10000, 10100, 13600, 13700}

\* stop 2 at 0 m (same coordinates), 120 m (100 s on foot), 400 m or 401 m of
\* stop 1; stop 1 on route 1, stop 2 on route 2 only or on both routes
WalkCatalogues ==
    {Catalogue(d, {1}, r2) : d \in {0, 120, 400, 401}, r2 \in {{2}, {1, 2}}}

\* the walk acceptance scenario: route 1 arrives at stop 1 at 10000, route 2
\* leaves stop 2, 200 m away, at 10100, 10200, 13800 and 20000
WalkScenario ==
    << [NodeId |-> 1, RouteId |-> 1, RouteVarId |-> 1, TripId |-> 1, StopId |-> 1,
        Timestamp |-> 10000, Event |-> "ARRIVAL"],
       [NodeId |-> 2, RouteId |-> 2, RouteVarId |-> 2, TripId |-> 1, StopId |-> 2,
        Timestamp |-> 10100, Event |-> "DEPARTURE"],
       [NodeId |-> 3, RouteId |-> 2, RouteVarId |-> 2, TripId |-> 2, StopId |-> 2,
        Timestamp |-> 10200, Event |-> "DEPARTURE"],
       [NodeId |-> 4, RouteId |-> 2, RouteVarId |-> 2, TripId |-> 3, StopId |-> 2,
        Timestamp |-> 13800, Event |-> "DEPARTURE"],
       [NodeId |-> 5, RouteId |-> 2, RouteVarId |-> 2, TripId |-> 4, StopId |-> 2,
        Timestamp |-> 20000, Event |-> "DEPARTURE"] >>

WalkScenarioCatalogue == Catalogue(200, {1}, {2})

\* node tables over two stops; the walk builder reads no RouteId or TripId of
\* a row
InitWalk ==
    InitLinksWith(NodeTables({1}, {1}, {1, 2}, WalkTimes) \cup {WalkScenario},
                  WalkCatalogues \cup {WalkScenarioCatalogue})

SpecWalk == InitWalk /\ [][NextLinks]_vars

\* A service day around one arrival: the rows from which every kind of link
\* arises.  Route 1 trip 1 runs stop 2 -> stop 1 -> stop 2; route 1 trip 2 and
\* route 2 leave stop 1 later; route 3 leaves stop 3, 200 m from stop 1.
DayRows ==
    << [RouteId |-> 1, TripId |-> 1, StopId |-> 2, Timestamp |-> 27900, Event |-> "DEPARTURE"],
       [RouteId |-> 1, TripId |-> 1, StopId |-> 1, Timestamp |-> 28000, Event |-> "ARRIVAL"],
       [RouteId |-> 1, TripId |-> 1, StopId |-> 1, Timestamp |-> 28030, Event |-> "DEPARTURE"],
       [RouteId |-> 1, TripId |-> 2, StopId |-> 1, Timestamp |-> 28630, Event |-> "DEPARTURE"],
       [RouteId |-> 2, TripId |-> 1, StopId |-> 1, Timestamp |-> 28200, Event |-> "DEPARTURE"],
       [RouteId |-> 3, TripId |-> 1, StopId |-> 3, Timestamp |-> 28400, Event |-> "DEPARTURE"],
       [RouteId |-> 1, TripId |-> 1, StopId |-> 2, Timestamp |-> 28500, Event |-> "ARRIVAL"] >>

DayCatalogue ==
    [info |-> (1 :> [Lat |-> 0, Lng |-> 0]) @@ (2 :> [Lat |-> 0, Lng |-> 5000])
               @@ (3 :> [Lat |-> 200, Lng |-> 0]),
     routes |-> (1 :> {1, 2}) @@ (2 :> {1}) @@ (3 :> {3})]

\* every table made of some of the rows of the day, in their order, renumbered
DayTables ==
    {LET keep == SortInts(S)
     IN [i \in 1..Len(keep) |->
            [NodeId |-> i, RouteId |-> DayRows[keep[i]].RouteId,
             RouteVarId |-> DayRows[keep[i]].RouteId,
             TripId |-> DayRows[keep[i]].TripId,
             StopId |-> DayRows[keep[i]].StopId,
             Timestamp |-> DayRows[keep[i]].Timestamp,
             Event |-> DayRows[keep[i]].Event]]
     : S \in SUBSET (1..Len(DayRows))}

InitLinkFile == InitLinksWith(DayTables, {DayCatalogue})

SpecLinkFile == InitLinkFile /\ [][NextLinks]_vars

-----------------------------------------------------------------------------
(* The two generators in sequence: the link generator reads the file the node
   generator wrote, and the stops of the same bus data *)

\* the stop of the bus data with a given StopId
StopOfId(id) ==
    CHOOSE s \in UNION {Range(input.stops) : input \in VariantInputs \ {Degenerate}} :
        s.StopId = id

\* load_stop_info, for the stops the node table has events at: coordinates of
\* the bus data, and the routes that call at the stop.  A stop without events
\* has no ARRIVAL and no DEPARTURE for any builder to pair.
load_stop_info(table) ==
    LET ids == {table[i].StopId : i \in DOMAIN table}
    IN [info |-> [id \in ids |-> [Lat |-> StopOfId(id).Lat, Lng |-> StopOfId(id).Lng]],
        routes |-> [id \in ids |->
                       {table[i].RouteId : i \in {j \in DOMAIN table : table[j].StopId = id}}]]

\* create_link_table_memory_optimized up to the first builder: read the node
\* table and the stops.  The node generator has returned: of its state only
\* the file it wrote is left.
LoadNodeTable ==
    /\ pc = "done"
    /\ lpc = "off"
    /\ node_df' = node_csv
    /\ LET loaded == load_stop_info(node_csv)
       IN stop_info' = loaded.info /\ stop_routes' = loaded.routes
    /\ output_csv' = <<>>
    /\ next_link_id' = 1
    /\ lpc' = "bus"
    /\ pc' = "off"
    /\ route' = NoRoute /\ variant' = NoVariant /\ trip' = NoTrip
    /\ nodes' = <<>> /\ all_nodes' = <<>>
    /\ variant_nodes' = FALSE
    /\ global_node_id' = 1
    /\ n_routes' = 0 /\ n_variants' = 0 /\ n_trips' = 0
    /\ UNCHANGED <<node_csv, previous_csv, CONFIG, chunk_links, pending>>

NextPipeline ==
    \/ NextNodes
    \/ LoadNodeTable
    \/ NextLinks

SpecPipeline == InitNodes /\ [][NextPipeline]_vars

-----------------------------------------------------------------------------
(* The link generator run again on the same node table, bus data and
   configuration, onto the output path of the run before *)

\* main is started again: the file of the finished run is still on the path
Rerun ==
    /\ lpc = "done"
    /\ previous_csv' = Some(output_csv)
    /\ lpc' = "bus"
    /\ next_link_id' = 1
    /\ UNCHANGED <<node_df, stop_info, stop_routes, output_csv, CONFIG, chunk_links,
                   pending, nvars>>

NextRerun ==
    \/ NextLinks
    \/ Rerun

SpecRerun == InitLinkFile /\ [][NextRerun]_vars

-----------------------------------------------------------------------------
(* The builders link by link: each link is appended to chunk_links under the
   next link_id, the buffer is written to the file when it has chunk_size
   rows, and what is left is written when the loops end *)

BUS_CHUNK_SIZE == 10000
WAIT_CHUNK_SIZE == 50000
TRANSFER_CHUNK_SIZE == 50000
WALK_CHUNK_SIZE == 50000

\* chunk_size of a builder, capped at MaxChunk so that a buffer fills
chunk_size(mode) ==
    LET size == CASE mode = "bus" -> BUS_CHUNK_SIZE
                  [] mode = "wait" -> WAIT_CHUNK_SIZE
                  [] mode = "transfer" -> TRANSFER_CHUNK_SIZE
                  [] mode = "walk" -> WALK_CHUNK_SIZE
    IN IF size < MaxChunk THEN size ELSE MaxChunk

Builders == {"bus", "wait", "transfer", "walk"}

\* the links the loops of a builder create, in the order they create them
LoopLinks(mode) ==
    CASE mode = "bus" -> BusCandidates(node_df)
      [] mode = "wait" -> WaitCandidates(node_df)
      [] mode = "transfer" -> TransferCandidates(node_df, CONFIG.MAX_TRANSFER_TIME)
      [] mode = "walk" -> WalkCandidates(node_df, stop_info, stop_routes,
                                         CONFIG.WALKING_RADIUS,
                                         CONFIG.MAX_WALK_WAIT_TIME)

\* the builder called after the given one
NextBuilder(mode) ==
    CASE mode = "bus" -> "wait"
      [] mode = "wait" -> "transfer"
      [] mode = "transfer" -> "walk"
      [] mode = "walk" -> "done"

\* a builder is entered: link_id = start_link_id, chunk_links = []; the bus
\* builder first writes the header over the file
EnterBuilder ==
    /\ lpc \in Builders
    /\ pending = None
    /\ IF lpc = "walk" /\ walk_time_raises(node_df, stop_info, CONFIG.WALKING_RADIUS)
       THEN /\ lpc' = "failed"
            /\ UNCHANGED <<output_csv, next_link_id, chunk_links, pending>>
       ELSE /\ pending' = Some(LoopLinks(lpc))
            /\ chunk_links' = <<>>
            /\ output_csv' = IF lpc = "bus" THEN <<>> ELSE output_csv
            /\ next_link_id' = IF lpc = "bus" THEN 1 ELSE next_link_id
            /\ UNCHANGED lpc
    /\ UNCHANGED <<node_df, stop_info, stop_routes, previous_csv, CONFIG, nvars>>

\* chunk_links.append({...}); link_id += 1
AppendLink ==
    /\ pending # None
    /\ pending[1] # <<>>
    /\ Len(chunk_links) < chunk_size(lpc)
    /\ chunk_links' = chunk_links \o AssignIds(<<Head(pending[1])>>, next_link_id, lpc)
    /\ next_link_id' = next_link_id + 1
    /\ pending' = Some(Tail(pending[1]))
    /\ UNCHANGED <<lpc, node_df, stop_info, stop_routes, output_csv, previous_csv,
                   CONFIG, nvars>>

\* FlushChunk leaving the rows it wrote in the buffer
FlushChunkKeepsRows ==
    /\ pending # None
    /\ Len(chunk_links) >= chunk_size(lpc)
    /\ output_csv' = output_csv \o chunk_links
    /\ UNCHANGED <<lpc, node_df, stop_info, stop_routes, next_link_id, previous_csv,
                   CONFIG, chunk_links, pending, nvars>>

\* if len(chunk_links) >= chunk_size: to_csv(mode='a'); chunk_links = []
FlushChunk ==
    /\ pending # None
    /\ Len(chunk_links) >= chunk_size(lpc)
    /\ output_csv' = output_csv \o chunk_links
    /\ chunk_links' = <<>>
    /\ UNCHANGED <<lpc, node_df, stop_info, stop_routes, next_link_id, previous_csv,
                   CONFIG, pending, nvars>>

\* the loops have ended: if chunk_links: to_csv(mode='a'); return link_id
LeaveBuilder ==
    /\ pending = Some(<<>>)
    /\ Len(chunk_links) < chunk_size(lpc)
    /\ output_csv' = IF chunk_links # <<>> THEN output_csv \o chunk_links ELSE output_csv
    /\ chunk_links' = <<>>
    /\ pending' = None
    /\ lpc' = NextBuilder(lpc)
    /\ UNCHANGED <<node_df, stop_info, stop_routes, next_link_id, previous_csv,
                   CONFIG, nvars>>

NextChunks ==
    \/ EnterBuilder
    \/ AppendLink
    \/ FlushChunk
    \/ LeaveBuilder

\* A longer service day, with three links or more for every builder: route 1
\* trip 1 runs stop 2 -> 1 -> 2 -> 1, two later trips of route 1 and three of
\* route 2 leave stop 1, and three trips of route 3 leave stop 3
ChunkRows ==
    << [RouteId |-> 1, TripId |-> 1, StopId |-> 2, Timestamp |-> 27900, Event |-> "DEPARTURE"],
       [RouteId |-> 1, TripId |-> 1, StopId |-> 1, Timestamp |-> 28000, Event |-> "ARRIVAL"],
       [RouteId |-> 1, TripId |-> 1, StopId |-> 1, Timestamp |-> 28030, Event |-> "DEPARTURE"],
       [RouteId |-> 1, TripId |-> 1, StopId |-> 2, Timestamp |-> 28500, Event |-> "ARRIVAL"],
       [RouteId |-> 1, TripId |-> 1, StopId |-> 2, Timestamp |-> 28530, Event |-> "DEPARTURE"],
       [RouteId |-> 1, TripId |-> 1, StopId |-> 1, Timestamp |-> 29000, Event |-> "ARRIVAL"],
       [RouteId |-> 1, TripId |-> 2, StopId |-> 1, Timestamp |-> 28630, Event |-> "DEPARTURE"],
       [RouteId |-> 1, TripId |-> 3, StopId |-> 1, Timestamp |-> 29100, Event |-> "DEPARTURE"],
       [RouteId |-> 2, TripId |-> 1, StopId |-> 1, Timestamp |-> 28200, Event |-> "DEPARTURE"],
       [RouteId |-> 2, TripId |-> 2, StopId |-> 1, Timestamp |-> 28300, Event |-> "DEPARTURE"],
       [RouteId |-> 2, TripId |-> 3, StopId |-> 1, Timestamp |-> 28400, Event |-> "DEPARTURE"],
       [RouteId |-> 3, TripId |-> 1, StopId |-> 3, Timestamp |-> 28400, Event |-> "DEPARTURE"],
       [RouteId |-> 3, TripId |-> 2, StopId |-> 3, Timestamp |-> 28450, Event |-> "DEPARTURE"],
       [RouteId |-> 3, TripId |-> 3, StopId |-> 3, Timestamp |-> 28600, Event |-> "DEPARTURE"] >>

\* how many rows of ChunkRows a table may leave out
MaxLeftOut == 3

\* the tables made of all the rows but a few, in their order, renumbered
ChunkTables ==
    {LET keep == SortInts((1..Len(ChunkRows)) \ S)
     IN [i \in 1..Len(keep) |->
            [NodeId |-> i, RouteId |-> ChunkRows[keep[i]].RouteId,
             RouteVarId |-> ChunkRows[keep[i]].RouteId,
             TripId |-> ChunkRows[keep[i]].TripId,
             StopId |-> ChunkRows[keep[i]].StopId,
             Timestamp |-> ChunkRows[keep[i]].Timestamp,
             Event |-> ChunkRows[keep[i]].Event]]
     : S \in {T \in SUBSET (1..Len(ChunkRows)) : Cardinality(T) <= MaxLeftOut}}

InitChunks == InitLinksWith(ChunkTables, {DayCatalogue})

SpecChunks == InitChunks /\ [][NextChunks]_vars

-----------------------------------------------------------------------------
(* create_link_table_memory_optimized called with a config argument *)

\* the config dicts a caller passes: none, and one key overridden
ConfigInputs ==
    { <<>>,
      "MAX_TRANSFER_TIME" :> 60,
      "WALKING_RADIUS" :> 0,
      "WALKING_RADIUS" :> -1,
      "WALKING_SPEED_NUM" :> 0,
      "WALKING_SPEED_NUM" :> -12 }

\* if config: CONFIG.update(config)
UpdateConfig ==
    /\ lpc = "config"
    /\ \E config \in ConfigInputs :
          CONFIG' = [k \in DOMAIN CONFIG |->
                        IF k \in DOMAIN config THEN config[k] ELSE CONFIG[k]]
    /\ lpc' = "bus"
    /\ UNCHANGED <<node_df, stop_info, stop_routes, output_csv, next_link_id,
                   previous_csv, chunk_links, pending, nvars>>

\* validate_config of config.py, on the keys the link generator reads: TRUE
\* when it raises no ValueError
validate_config(cfg) ==
    /\ ~(cfg.WALKING_RADIUS <= 0)
    /\ ~(cfg.WALKING_SPEED_NUM * cfg.WALKING_SPEED_DEN <= 0)
    /\ ~(cfg.MAX_TRANSFER_TIME < cfg.MIN_TRANSFER_TIME)

InitConfig ==
    /\ lpc = "config"
    /\ node_df \in DayTables
    /\ stop_info = DayCatalogue.info
    /\ stop_routes = DayCatalogue.routes
    /\ output_csv = <<>>
    /\ next_link_id = 1
    /\ previous_csv = None
    /\ CONFIG = DefaultConfig
    /\ chunk_links = <<>>
    /\ pending = None
    /\ NodeGeneratorOff

NextConfig ==
    \/ UpdateConfig
    \/ NextLinks

SpecConfig == InitConfig /\ [][NextConfig]_vars

-----------------------------------------------------------------------------
(* Properties of the link table *)

\* the row of the node table with a given NodeId
NodeOf(id) == CHOOSE n \in Range(node_df) : n.NodeId = id

\* the rows of one mode in the link file, in file order
LinksOfMode(mode) == SelectSeq(output_csv, LAMBDA l : l.mode = mode)

\* a link without its id and mode
Join(l) == [from_node |-> l.from_node, to_node |-> l.to_node, duration |-> l.duration]

JoinsOfMode(mode) == {Join(l) : l \in Range(LinksOfMode(mode))}

Arrivals == {n \in Range(node_df) : n.Event = "ARRIVAL"}
Departures == {n \in Range(node_df) : n.Event = "DEPARTURE"}

\* C1: every bus link of the file leaves a DEPARTURE and reaches an ARRIVAL of
\* the same RouteId and TripId, its duration is the difference of the two
\* timestamps, and 0 < duration < 1800.
C1_BusLinkContract ==
    \A l \in Range(output_csv) :
        l.mode = "bus" =>
            LET f == NodeOf(l.from_node)
                t == NodeOf(l.to_node)
            IN /\ f.Event = "DEPARTURE"
               /\ t.Event = "ARRIVAL"
               /\ f.RouteId = t.RouteId
               /\ f.TripId = t.TripId
               /\ l.duration = t.Timestamp - f.Timestamp
               /\ 0 < l.duration
               /\ l.duration < 1800

\* a finished file with a bus link
C1_Witness ==
    /\ lpc = "done"
    /\ \E l \in Range(output_csv) : l.mode = "bus" /\ l.duration = 120

\* the walk links the claim describes: ARRIVAL a at stop A, DEPARTURE d at stop
\* B # A, distance(A, B) <= 400, no shared route, and
\* t_a + distance / 1.2 <= t_d <= t_a + 3600
StopDistance(a, b) ==
    Abs(stop_info[a].Lat - stop_info[b].Lat) + Abs(stop_info[a].Lng - stop_info[b].Lng)

ExpectedWalkJoins ==
    {[from_node |-> a.NodeId, to_node |-> d.NodeId,
      duration |-> d.Timestamp - a.Timestamp] :
        <<a, d>> \in {p \in Arrivals \X Departures :
            /\ p[2].StopId # p[1].StopId
            /\ StopDistance(p[1].StopId, p[2].StopId) <= 400
            /\ stop_routes[p[1].StopId] \cap stop_routes[p[2].StopId] = {}
            /\ 12 * (p[2].Timestamp - p[1].Timestamp)
                   >= 10 * StopDistance(p[1].StopId, p[2].StopId)
            /\ p[2].Timestamp <= p[1].Timestamp + 3600}}

\* C2: once the walk builder has run, the walk links of the file are exactly
\* the expected ones, each written once; none joins two stops that share a route.
C2_WalkLinksExact ==
    lpc = "done" =>
        /\ JoinsOfMode("walk") = ExpectedWalkJoins
        /\ Len(LinksOfMode("walk")) = Cardinality(ExpectedWalkJoins)
        /\ \A l \in Range(LinksOfMode("walk")) :
              stop_routes[NodeOf(l.from_node).StopId]
                  \cap stop_routes[NodeOf(l.to_node).StopId] = {}

\* a walk link was written whose duration is exactly the walking time (100 s
\* for 120 m), and a pair in reach of each other got none
C2_Witness ==
    /\ lpc = "done"
    /\ \E l \in Range(LinksOfMode("walk")) :
          12 * l.duration = 10 * StopDistance(NodeOf(l.from_node).StopId,
                                              NodeOf(l.to_node).StopId)
          /\ l.duration = 100

\* C3: every transfer link joins an ARRIVAL to a DEPARTURE of another route at
\* the same stop, its duration is the difference of the timestamps and lies in
\* [MIN_TRANSFER_TIME, MAX_TRANSFER_TIME] = [120, 1800]; in the scenario of an
\* arrival at 28000 and departures at 28200 and 30000 only the 200 s link is
\* written.
C3_TransferLinkContract ==
    /\ \A l \in Range(output_csv) :
          l.mode = "transfer" =>
              LET f == NodeOf(l.from_node)
                  t == NodeOf(l.to_node)
              IN /\ f.Event = "ARRIVAL"
                 /\ t.Event = "DEPARTURE"
                 /\ f.StopId = t.StopId
                 /\ f.RouteId # t.RouteId
                 /\ l.duration = t.Timestamp - f.Timestamp
                 /\ 120 <= l.duration
                 /\ l.duration <= 1800
    /\ (node_df = TransferScenario /\ lpc \in {"walk", "done"}) =>
          [i \in 1..Len(LinksOfMode("transfer")) |-> Join(LinksOfMode("transfer")[i])]
              = <<[from_node |-> 1, to_node |-> 2, duration |-> 200]>>

\* the scenario has run through the transfer builder and its one link is there
C3_Witness ==
    /\ node_df = TransferScenario
    /\ lpc = "done"
    /\ \E l \in Range(output_csv) : l.mode = "transfer" /\ l.duration = 200

ExpectedWaitJoins ==
    {[from_node |-> a.NodeId, to_node |-> d.NodeId,
      duration |-> d.Timestamp - a.Timestamp] :
        <<a, d>> \in {p \in Arrivals \X Departures :
            /\ p[1].StopId = p[2].StopId
            /\ p[1].RouteId = p[2].RouteId
            /\ p[2].Timestamp > p[1].Timestamp}}

ModeRank(mode) ==
    CASE mode = "bus" -> 1
      [] mode = "wait" -> 2
      [] mode = "transfer" -> 3
      [] mode = "walk" -> 4

\* C5: at every point of the run the link ids of the file are 1..N in file
\* order, the rows come as bus, wait, transfer, walk, and the id a builder
\* returns (where the next one starts) is the last id used + 1.
C5_LinkIdsDense ==
    /\ \A i \in DOMAIN output_csv : output_csv[i].link_id = i
    /\ \A i, j \in DOMAIN output_csv :
          i < j => ModeRank(output_csv[i].mode) <= ModeRank(output_csv[j].mode)
    /\ next_link_id = Len(output_csv) + 1

\* a finished file with links of all four modes, two of them wait links
C5_Witness ==
    /\ lpc = "done"
    /\ \A m \in {"bus", "wait", "transfer", "walk"} : LinksOfMode(m) # <<>>
    /\ Len(LinksOfMode("wait")) >= 2

-----------------------------------------------------------------------------
(* Properties of the node table *)

\* every event emitted so far, in emission order
Emitted == all_nodes \o nodes

\* the latest trip belongs to the variant whose locals the state holds
TripOfVariant ==
    /\ trip.outcome # "none"
    /\ trip.variant_id = variant.variant_id

\* C6: the NodeIds of the events emitted so far are 1, 2, .. in emission
\* order, the next id is the count of events + 1, and the file written at the
\* end holds these rows: skipped variants and dropped trips use no id.
C6_NodeIdsDense ==
    /\ \A i \in DOMAIN Emitted : Emitted[i].NodeId = i
    /\ global_node_id = Len(Emitted) + 1
    /\ pc = "done" => node_csv = Emitted

\* a file of events written after a trip was dropped and a variant skipped
C6_Witness ==
    /\ pc = "done"
    /\ node_csv # <<>>
    /\ variant.skipped
    /\ trip.outcome \in {"invalid_time", "no_travel_time", "too_slow", "too_fast"}

\* C7: an emitted trip of a non-loop variant of n stops is a DEPARTURE at the
\* first stop, an ARRIVAL then a DEPARTURE at every interior stop, the two a
\* dwell apart, and an ARRIVAL at the last stop; these are the latest events
\* of the list.
C7_TripEventPattern ==
    (TripOfVariant /\ trip.outcome = "emitted" /\ ~variant.is_loop_route) =>
        LET ev == trip.events
            n == Len(variant.stops)
        IN /\ Len(ev) = 2 * n - 2
           /\ ev[1].Event = "DEPARTURE" /\ ev[1].StopId = variant.stops[1].StopId
           /\ \A i \in 2..(n - 1) :
                 /\ ev[2 * i - 2].Event = "ARRIVAL"
                 /\ ev[2 * i - 2].StopId = variant.stops[i].StopId
                 /\ ev[2 * i - 1].Event = "DEPARTURE"
                 /\ ev[2 * i - 1].StopId = variant.stops[i].StopId
                 /\ ev[2 * i - 1].Timestamp - ev[2 * i - 2].Timestamp
                        = variant.waiting_time
           /\ ev[2 * n - 2].Event = "ARRIVAL"
           /\ ev[2 * n - 2].StopId = variant.stops[n].StopId
           /\ variant.waiting_time = 30
           /\ Len(Emitted) >= Len(ev)
           /\ SubSeq(Emitted, trip.first_id, trip.first_id + Len(ev) - 1) = ev

\* a three-stop trip whose interior arrival falls on a half second
C7_Witness ==
    /\ TripOfVariant /\ trip.outcome = "emitted" /\ ~variant.is_loop_route
    /\ Len(trip.events) = 4
    /\ trip.events[2].Timestamp = 83900
    /\ trip.events[3].Timestamp = 83930

\* C8: the timestamps of the events of an emitted trip never decrease in
\* emission order, on loop and non-loop variants.
C8_TripTimestampsMonotone ==
    trip.outcome = "emitted" =>
        \A i \in 1..(Len(trip.events) - 1) :
            trip.events[i].Timestamp <= trip.events[i + 1].Timestamp

\* an overnight trip of a loop variant: a DEPARTURE before midnight and the
\* ARRIVAL after it
C8_Witness ==
    /\ TripOfVariant /\ trip.outcome = "emitted" /\ variant.is_loop_route
    /\ trip.events[1].Timestamp < 86400
    /\ trip.events[2].Timestamp > 86400

\* what the claims call a time that parses as HH:MM, and its seconds
IsHHMM(ts) ==
    /\ ts.is_str
    /\ Len(ts.parts) = 2
    /\ ts.parts[1] # <<>> /\ ts.parts[2] # <<>>
    /\ ts.parts[1][1] \in 0..23
    /\ ts.parts[2][1] \in 0..59

ClockSeconds(ts) == ts.parts[1][1] * 3600 + ts.parts[2][1] * 60

\* the end time of a trip with the overnight rule of the claims
ClaimedEnd(t) ==
    IF ClockSeconds(t.EndTime) <= ClockSeconds(t.StartTime)
    THEN ClockSeconds(t.EndTime) + 86400
    ELSE ClockSeconds(t.EndTime)

\* the acceptance rule of the claims: both times parse, travel > 0 and
\* 1.0 <= total_distance / travel <= 22.2
ClaimedAccepted(t, v) ==
    /\ IsHHMM(t.StartTime) /\ IsHHMM(t.EndTime)
    /\ LET travel == ClaimedEnd(t) - ClockSeconds(t.StartTime)
                         - (Len(v.stops) - 1) * v.waiting_time
       IN /\ travel > 0
          /\ v.total_distance >= travel
          /\ 10 * v.total_distance <= 222 * travel

C9_State ==
    TripOfVariant =>
        /\ (trip.outcome = "emitted") <=> ClaimedAccepted(trip, variant)
        /\ (trip.outcome = "emitted") <=> (trip.events # <<>>)
        /\ pc # "aborted"

C9_Step ==
    (pc = "trip_loop" /\ n_trips' = n_trips + 1 /\ trip'.outcome # "emitted") =>
        /\ nodes' = nodes
        /\ all_nodes' = all_nodes
        /\ global_node_id' = global_node_id
        /\ pc' = "trip_loop"

\* C9: a trip of a valid variant emits events exactly when it meets the
\* acceptance rule; a trip that does not emits nothing, leaves the events
\* emitted so far and the next NodeId as they were, and the run goes on.
C9_TripAcceptance == []C9_State /\ [][C9_Step]_vars

\* a trip faster than 22.2 m/s was dropped after another trip of the variant
\* was emitted
C9_Witness ==
    /\ pc = "trip_loop"
    /\ TripOfVariant
    /\ trip.outcome = "too_fast"
    /\ nodes # <<>>

\* C10: the end time the expander uses is the parsed end + 86400 when the parsed
\* end is not after the parsed start, the parsed end otherwise; the span it
\* divides is that end - start (10800 s for 22:30 -> 01:30); an emitted trip
\* starts at the parsed start and ends at that end (a dwell earlier on a
\* non-loop variant, whose last stop has no dwell).
C10_OvernightEnd ==
    (TripOfVariant /\ trip.outcome \notin {"invalid_time", "raise"}) =>
        /\ trip.start_seconds = <<ClockSeconds(trip.StartTime)>>
        /\ trip.end_seconds = <<ClaimedEnd(trip)>>
        /\ trip.traveling_time + (Len(variant.stops) - 1) * variant.waiting_time
               = ClaimedEnd(trip) - ClockSeconds(trip.StartTime)
        /\ (trip.StartTime = HHMM(22, 30) /\ trip.EndTime = HHMM(1, 30)) =>
               trip.end_seconds[1] - trip.start_seconds[1] = 10800
        /\ trip.outcome = "emitted" =>
               /\ trip.events[1].Timestamp = ClockSeconds(trip.StartTime)
               /\ trip.events[Len(trip.events)].Timestamp =
                      ClaimedEnd(trip) - (IF variant.is_loop_route THEN 0
                                          ELSE variant.waiting_time)

\* an emitted trip whose end equals its start: it ends a day later
C10_Witness ==
    /\ TripOfVariant /\ trip.outcome = "emitted"
    /\ ClockSeconds(trip.EndTime) = ClockSeconds(trip.StartTime)
    /\ trip.events[Len(trip.events)].Timestamp >= 86400

\* C11: a variant that reaches the loop test is treated as a loop exactly when
\* it has two stops with the same Lat and the same Lng; an emitted trip of a
\* loop variant is two events, a DEPARTURE at stops[0] at the parsed start and
\* an ARRIVAL at stops[1] at the overnight-adjusted end.
C11_LoopVariant ==
    /\ (variant.variant_id # 0 /\ Len(variant.stops) >= 2) =>
          (variant.is_loop_route <=>
              /\ Len(variant.stops) = 2
              /\ variant.stops[1].Lat = variant.stops[2].Lat
              /\ variant.stops[1].Lng = variant.stops[2].Lng)
    /\ (TripOfVariant /\ trip.outcome = "emitted" /\ variant.is_loop_route) =>
          /\ Len(trip.events) = 2
          /\ trip.events[1].Event = "DEPARTURE"
          /\ trip.events[1].StopId = variant.stops[1].StopId
          /\ trip.events[1].Timestamp = ClockSeconds(trip.StartTime)
          /\ trip.events[2].Event = "ARRIVAL"
          /\ trip.events[2].StopId = variant.stops[2].StopId
          /\ trip.events[2].Timestamp = ClaimedEnd(trip)
          /\ SubSeq(Emitted, trip.first_id, trip.first_id + 1) = trip.events

\* a daytime trip emitted on the loop variant, and a two-stop variant that is
\* not a loop seen in the same run
C11_Witness ==
    /\ TripOfVariant /\ trip.outcome = "emitted" /\ variant.is_loop_route
    /\ trip.events[2].Timestamp = 25800
    /\ \E e \in Range(all_nodes) : e.StopId = 3 /\ e.NodeId = 2

\* C12 (as stated): for an emitted trip of n stops, the last Timestamp minus
\* the first is end - start up to n seconds.
C12_SpanEqualsTripTime ==
    (TripOfVariant /\ trip.outcome = "emitted") =>
        LET ev == trip.events
            span == ev[Len(ev)].Timestamp - ev[1].Timestamp
            trip_time == ClaimedEnd(trip) - ClockSeconds(trip.StartTime)
        IN Abs(span - trip_time) <= Len(variant.stops)

-----------------------------------------------------------------------------
(* Properties of the link table built from the node table of the expander *)

\* the bus builder has written the ride links of the expander's node table
RideLinksWritten == lpc \in {"wait", "transfer", "walk", "done"} /\ node_df = node_csv

\* every (RouteId, TripId) of the node table names one trip: its events hold
\* one DEPARTURE from a stop the group never arrives at
OneTripPerGroup ==
    \A n \in Range(node_df) :
        LET group == {m \in Range(node_df) :
                         m.RouteId = n.RouteId /\ m.TripId = n.TripId}
            first == {d \in group :
                         /\ d.Event = "DEPARTURE"
                         /\ \A a \in group : a.Event = "ARRIVAL" => a.StopId # d.StopId}
        IN Cardinality(first) = 1

\* C13 (as stated): every bus link of a node table of the expander goes from a
\* DEPARTURE to the event emitted directly after it, the ARRIVAL at the next
\* stop of the trip, also when the two share a Timestamp.
C13_BusLinkToNextStop ==
    (RideLinksWritten /\ OneTripPerGroup) =>
        \A l \in Range(LinksOfMode("bus")) :
            /\ l.to_node = l.from_node + 1
            /\ NodeOf(l.to_node).Event = "ARRIVAL"

\* C14 (as stated): in a node table of the expander every DEPARTURE is less
\* than 1800 s before the ARRIVAL emitted after it and has its bus link.
C14_EveryDepartureHasRideLink ==
    (RideLinksWritten /\ OneTripPerGroup) =>
        \A d \in Departures :
            /\ NodeOf(d.NodeId + 1).Timestamp - d.Timestamp < 1800
            /\ \E l \in Range(LinksOfMode("bus")) : l.from_node = d.NodeId

\* C15 (as stated): every link of the file, of any mode, has a duration
\* greater than 0.
C15_DurationsPositive ==
    \A l \in Range(output_csv) : l.duration \in Nat /\ l.duration > 0

-----------------------------------------------------------------------------
(* The transfer window *)

\* the transfer links to expect when the window of the waiting time is
\* low < d <= 1800 (low = 119 makes it 120 <= d)
TransferJoinsAbove(low) ==
    {[from_node |-> a.NodeId, to_node |-> d.NodeId,
      duration |-> d.Timestamp - a.Timestamp] :
        <<a, d>> \in {p \in Arrivals \X Departures :
            /\ p[2].StopId = p[1].StopId
            /\ p[2].RouteId # p[1].RouteId
            /\ p[2].Timestamp - p[1].Timestamp > low
            /\ p[2].Timestamp - p[1].Timestamp <= 1800}}

\* C16 (as stated): the transfer links are those of the half-open window
\* (t_a + 120, t_a + 1800]; a departure exactly 120 s after the arrival has none.
C16_HalfOpenWindow ==
    lpc \in {"walk", "done"} => JoinsOfMode("transfer") = TransferJoinsAbove(120)

\* C16 (amended): the transfer links are those of the closed window
\* [t_a + 120, t_a + 1800], each written once: a departure exactly 120 s after
\* the arrival has its link, and so has one exactly 1800 s after it.
C16_ClosedWindow ==
    lpc \in {"walk", "done"} =>
        /\ JoinsOfMode("transfer") = TransferJoinsAbove(119)
        /\ Len(LinksOfMode("transfer")) = Cardinality(TransferJoinsAbove(119))
        /\ node_df = WindowScenario =>
              {l.to_node : l \in Range(LinksOfMode("transfer"))} = {3, 4}

\* the table of the window's ends has run through the transfer builder
C16_Witness ==
    /\ node_df = WindowScenario
    /\ lpc = "done"
    /\ \E l \in Range(LinksOfMode("transfer")) : l.duration = 120
    /\ \E l \in Range(LinksOfMode("transfer")) : l.duration = 1800

-----------------------------------------------------------------------------
(* The walk acceptance scenario *)

WalkScenarioDone ==
    /\ lpc = "done"
    /\ node_df = WalkScenario
    /\ stop_info = WalkScenarioCatalogue.info
    /\ stop_routes = WalkScenarioCatalogue.routes

\* C17 (as stated): the scenario yields walk links for the departures at 10200
\* (duration 200) and 13800 (duration 3800) and for no other.
C17_TwoWalkLinks ==
    WalkScenarioDone =>
        JoinsOfMode("walk") = {[from_node |-> 1, to_node |-> 3, duration |-> 200],
                               [from_node |-> 1, to_node |-> 4, duration |-> 3800]}

\* C17 (amended): the scenario yields one walk link, for the departure at 10200
\* (duration 200); 10100 is before the walker can be there, 13800 and 20000
\* are more than MAX_WALK_WAIT_TIME = 3600 s after the arrival.
C17_OneWalkLink ==
    WalkScenarioDone =>
        /\ [i \in 1..Len(LinksOfMode("walk")) |-> Join(LinksOfMode("walk")[i])]
               = <<[from_node |-> 1, to_node |-> 3, duration |-> 200]>>
        /\ Len(output_csv) = 1

\* the scenario has run through the walk builder, which wrote a link
C17_Witness ==
    /\ WalkScenarioDone
    /\ \E l \in Range(output_csv) : l.mode = "walk" /\ l.to_node = 3

-----------------------------------------------------------------------------
(* The single-trip scenarios *)

\* the node table of the expander holds one trip over three distinct stops:
\* DEP@A, ARR@B, DEP@B, ARR@C
IsolatedTrip ==
    /\ node_df = node_csv
    /\ Len(node_df) = 4
    /\ [i \in 1..4 |-> node_df[i].Event]
           = <<"DEPARTURE", "ARRIVAL", "DEPARTURE", "ARRIVAL">>
    /\ \A i \in 1..4 : /\ node_df[i].RouteId = node_df[1].RouteId
                       /\ node_df[i].TripId = node_df[1].TripId
    /\ node_df[2].StopId = node_df[3].StopId
    /\ Cardinality({node_df[1].StopId, node_df[2].StopId, node_df[4].StopId}) = 3

\* C18 (as stated): for the table of one isolated trip the wait builder writes
\* no wait link.
C18_NoWaitLink ==
    (IsolatedTrip /\ lpc \in {"transfer", "walk", "done"}) =>
        LinksOfMode("wait") = <<>>

\* C18 (amended): for the table of one isolated trip the wait builder writes
\* one wait link, from the ARRIVAL at B to the DEPARTURE at B of the same trip,
\* its duration the dwell of 30 s.
C18_OneDwellLink ==
    (IsolatedTrip /\ lpc \in {"transfer", "walk", "done"}) =>
        [i \in 1..Len(LinksOfMode("wait")) |-> Join(LinksOfMode("wait")[i])]
            = <<[from_node |-> 2, to_node |-> 3, duration |-> 30]>>

\* the isolated trip of the line of three stops 1100 m apart has run through
\* the wait builder
C18_Witness ==
    /\ IsolatedTrip
    /\ lpc = "transfer"
    /\ node_df[2].StopId = 2 /\ node_df[2].Timestamp = 25470
    /\ \E l \in Range(output_csv) : l.mode = "wait"

\* the single-trip line scenario: the run processed one variant, the line of
\* three stops 1100 m apart, and one trip, 07:00 -> 07:10, and wrote its file
LineScenarioRun ==
    /\ pc = "done"
    /\ n_variants = 1 /\ n_trips = 1
    /\ variant.stops = Line3.stops
    /\ variant.waiting_time = 30
    /\ trip.StartTime = HHMM(7, 0) /\ trip.EndTime = HHMM(7, 10)

\* the file of the scenario as a list of (StopId, Timestamp, Event)
LineScenarioRows(table) ==
    [i \in DOMAIN table |-> <<table[i].StopId, table[i].Timestamp, table[i].Event>>]

LineScenarioEvents ==
    << <<1, 25200, "DEPARTURE">>, <<2, 25470, "ARRIVAL">>,
       <<2, 25500, "DEPARTURE">>, <<3, 25770, "ARRIVAL">> >>

\* C19 (as stated): the scenario emits 5 events, among them DEP@A 25200,
\* ARR@B 25470, DEP@B 25500, ARR@C 25770 and no DEPARTURE at C.
C19_FiveEvents ==
    LineScenarioRun =>
        /\ Len(node_csv) = 5
        /\ Range(LineScenarioEvents) \subseteq Range(LineScenarioRows(node_csv))
        /\ \A e \in Range(node_csv) : ~(e.StopId = 3 /\ e.Event = "DEPARTURE")

\* C19 (amended): the scenario emits 4 events, DEP@A 25200, ARR@B 25470,
\* DEP@B 25500 and ARR@C 25770, with no DEPARTURE at C; from this file the bus
\* builder writes two bus links of 270 s each, DEP@A -> ARR@B and
\* DEP@B -> ARR@C.
C19_FourEvents ==
    /\ LineScenarioRun =>
          /\ LineScenarioRows(node_csv) = LineScenarioEvents
          /\ \A i \in 1..4 : node_csv[i].NodeId = i
    /\ (/\ node_df = node_csv
        /\ LineScenarioRows(node_df) = LineScenarioEvents
        /\ lpc \in {"wait", "transfer", "walk", "done"}) =>
          [i \in 1..Len(LinksOfMode("bus")) |-> Join(LinksOfMode("bus")[i])]
              = << [from_node |-> 1, to_node |-> 2, duration |-> 270],
                   [from_node |-> 3, to_node |-> 4, duration |-> 270] >>

\* the file of the scenario has run through the bus builder
C19_Witness ==
    /\ node_df = node_csv
    /\ LineScenarioRows(node_df) = LineScenarioEvents
    /\ lpc = "wait"
    /\ Len(output_csv) = 2

-----------------------------------------------------------------------------
(* Two runs of the link generator *)

C21_InvalidConfigFatal ==
    ~validate_config(CONFIG) =>
        /\ lpc \notin {"wait", "transfer", "walk", "done"}
        /\ output_csv = <<>>

\* the link file the four builders leave when each writes all its links at once
WholeFile ==
    LET bus == create_bus_links_to_file(node_df, 1)
        wait == append_wait_links_to_file(node_df, bus.link_id)
        transfer == append_transfer_links_to_file(node_df, wait.link_id,
                                                  CONFIG.MAX_TRANSFER_TIME)
        walk == append_walk_links_to_file(node_df, stop_info, stop_routes,
                                          transfer.link_id, CONFIG.WALKING_RADIUS,
                                          CONFIG.MAX_WALK_WAIT_TIME)
    IN bus.rows \o wait.rows \o transfer.rows \o walk.rows

\* the buffer never exceeds chunk_size; the ids assigned so far are those of
\* the file followed by the buffer, each once and in order; nothing is left in
\* the buffer when a builder has returned
C22_State ==
    /\ pending # None => Len(chunk_links) <= chunk_size(lpc)
    /\ LET assigned == output_csv \o chunk_links
       IN /\ Len(assigned) = next_link_id - 1
          /\ \A i \in 1..Len(assigned) : assigned[i].link_id = i
    /\ pending = None => chunk_links = <<>>
    /\ lpc = "done" => output_csv = WholeFile

\* a full buffer is written and emptied by the very next step, and the rows left
\* when the loops end are written as the builder returns
C22_Step ==
    /\ (pending # None /\ Len(chunk_links) >= chunk_size(lpc)) =>
           (output_csv' = output_csv \o chunk_links /\ chunk_links' = <<>>)
    /\ (pending # None /\ pending' = None) =>
           output_csv' = output_csv \o chunk_links

\* C22: in each builder the buffer chunk_links holds at most chunk_size rows at
\* every point; it is written to the file and emptied as soon as it reaches
\* chunk_size and written once more at the end; every link that was given a
\* link_id is in the file exactly once, in the order of the ids
C22_ChunkFlushing == []C22_State /\ [][C22_Step]_vars

\* a wait builder that has written a full chunk and holds further links
C22_Witness ==
    /\ lpc = "wait"
    /\ pending # None
    /\ Len(LinksOfMode("wait")) >= chunk_size("wait")
    /\ chunk_links # <<>>
    /\ Len(LinksOfMode("bus")) > chunk_size("bus")

\* C23: every bus link joins two events of one scheduled trip of one variant:
\* from_node and to_node have the same RouteVarId, also when a TripId is used
\* by several trips of the route
C23_BusLinkWithinVariant ==
    RideLinksWritten =>
        \A l \in Range(LinksOfMode("bus")) :
            NodeOf(l.from_node).RouteVarId = NodeOf(l.to_node).RouteVarId

====
